---- MODULE Spec2Model ----
(***************************************************************************)
(* Model of file-seq (src/src/lib.rs): a u64 counter kept in a directory   *)
(* as two rotating slot files, `_1.seq` (path_1, the rotated older slot)   *)
(* and `_2.seq` (path_2, the slot write() writes to).                      *)
(*                                                                         *)
(* A u64 is modelled at its full 64-bit width as four 16-bit limbs, most   *)
(* significant first; a slot file is its byte content (or absent).         *)
(*                                                                         *)
(* Faults.  A filesystem call of write() may be interrupted: the rename or *)
(* the file creation fails, or the content write stops after some bytes.   *)
(* The same on-disk outcomes arise when the process is killed at that      *)
(* step, so one fault outcome covers both an I/O error return and a crash; *)
(* Restart models the loss of the in-memory handle.  remove_file on a file *)
(* that exists is taken to succeed.                                        *)
(***************************************************************************)
EXTENDS Integers, Sequences, FiniteSets, TLC

VARIABLES
    f1,       \* content of `_1.seq` (path_1)
    f2,       \* content of `_2.seq` (path_2)
    handle,   \* TRUE when the caller holds a FileSeq returned by new()
    build,    \* overflow behaviour of `+`: "debug" panics, "release" wraps
    last,     \* history: the latest call, its result and the files it found
    truth,    \* history: the mathematical value V + sum(d_i) since the seed
    exact,    \* history: TRUE while only successful calls followed the seed
    seen,     \* history: result of the latest successful value() before last
    incs,     \* history: number of successful increments since the seed
    nops,     \* history: number of operations performed
    procs     \* the processes of the concurrent specification, step by step

vars == <<f1, f2, handle, build, last, truth, exact, seen, incs, nops, procs>>

(***************************************************************************)
(* Bounds of the model.                                                    *)
(***************************************************************************)
MaxOps == 5
MaxInc == 1

(***************************************************************************)
(* u64 and its big-endian byte encoding.                                   *)
(***************************************************************************)
ByteBase == 256
SlotLen == 8
LimbBase == ByteBase * ByteBase
LimbMax == LimbBase - 1

U64Zero == <<0, 0, 0, 0>>
U64Max == <<LimbMax, LimbMax, LimbMax, LimbMax>>

\* the u64 of a small natural number (below 2^31)
FromNat(n) == <<0, 0, n \div LimbBase, n % LimbBase>>

\* the u64 that lies k below u64::MAX (k below 2^16)
BelowMax(k) == <<LimbMax, LimbMax, LimbMax, LimbMax - k>>

\* a + b on u64: the wrapped sum and whether the true sum left the range
U64Add(a, b) ==
    LET s4 == a[4] + b[4]
        s3 == a[3] + b[3] + (s4 \div LimbBase)
        s2 == a[2] + b[2] + (s3 \div LimbBase)
        s1 == a[1] + b[1] + (s2 \div LimbBase)
    IN  [val |-> <<s1 % LimbBase, s2 % LimbBase, s3 % LimbBase, s4 % LimbBase>>,
         overflow |-> s1 \div LimbBase > 0]

\* mutant: the comparison admits equality
U64Ge(a, b) ==
    \/ a = b
    \/ a[1] > b[1]
    \/ a[1] = b[1] /\ a[2] > b[2]
    \/ a[1] = b[1] /\ a[2] = b[2] /\ a[3] > b[3]
    \/ a[1] = b[1] /\ a[2] = b[2] /\ a[3] = b[3] /\ a[4] > b[4]

\* a > b on u64
U64Gt(a, b) ==
    \/ a[1] > b[1]
    \/ a[1] = b[1] /\ a[2] > b[2]
    \/ a[1] = b[1] /\ a[2] = b[2] /\ a[3] > b[3]
    \/ a[1] = b[1] /\ a[2] = b[2] /\ a[3] = b[3] /\ a[4] > b[4]

\* mutant: the value is encoded least significant byte first
to_le_bytes(v) ==
    <<v[4] % ByteBase, v[4] \div ByteBase, v[3] % ByteBase, v[3] \div ByteBase,
      v[2] % ByteBase, v[2] \div ByteBase, v[1] % ByteBase, v[1] \div ByteBase>>

to_be_bytes(v) ==
    <<v[1] \div ByteBase, v[1] % ByteBase, v[2] \div ByteBase, v[2] % ByteBase,
      v[3] \div ByteBase, v[3] % ByteBase, v[4] \div ByteBase, v[4] % ByteBase>>

from_be_bytes(b) ==
    <<b[1] * ByteBase + b[2], b[3] * ByteBase + b[4],
      b[5] * ByteBase + b[6], b[7] * ByteBase + b[8]>>

(***************************************************************************)
(* Files.                                                                  *)
(***************************************************************************)
Absent == [exists |-> FALSE, data |-> <<>>]
File(bytes) == [exists |-> TRUE, data |-> bytes]

\* fs::metadata(path).is_ok()
metadata_is_ok(f) == f.exists

NoVal == <<>>
Ok(v) == [kind |-> "ok", val |-> v, err |-> "none"]
Err(e) == [kind |-> "err", val |-> NoVal, err |-> e]
Panic == [kind |-> "panic", val |-> NoVal, err |-> "overflow"]


None == [some |-> FALSE, val |-> NoVal]
Some(v) == [some |-> TRUE, val |-> v]

\* Result<T>::ok(): Ok(v) becomes Some(v), an error becomes None
ok(r) == IF r.kind = "ok" THEN Some(r.val) ELSE None

\* File::open followed by read_exact of 8 bytes and from_be_bytes
read_from_path(f) ==
    IF ~f.exists THEN Err("NotFound")
    ELSE IF Len(f.data) < SlotLen THEN Err("UnexpectedEof")
    ELSE Ok(from_be_bytes(SubSeq(f.data, 1, SlotLen)))

\* fs::remove_file(path).ok(): the file is gone afterwards, errors are ignored
remove_file_ok(f) == Absent

\* mutant: when both slots decode, `_2.seq` is trusted without comparing
read_trust_latest(a, b) ==
    LET r1 == IF metadata_is_ok(a) THEN read_from_path(a) ELSE Err("unread")
        value1 == IF metadata_is_ok(a) THEN ok(r1) ELSE None
        value2 == IF metadata_is_ok(b) THEN ok(read_from_path(b)) ELSE None
    IN  IF metadata_is_ok(a) /\ r1.kind = "err"
        THEN [res |-> r1, f1 |-> a, f2 |-> b]
        ELSE IF value2.some
        THEN [res |-> Ok(value2.val), f1 |-> a, f2 |-> b]
        ELSE IF value1.some
             THEN [res |-> Ok(value1.val), f1 |-> a, f2 |-> remove_file_ok(b)]
             ELSE [res |-> Err("InvalidData"), f1 |-> a, f2 |-> remove_file_ok(b)]

\* mutant: an undecodable `_2.seq` is left in place
read_keeps_corrupt(a, b) ==
    LET r1 == IF metadata_is_ok(a) THEN read_from_path(a) ELSE Err("unread")
        value1 == IF metadata_is_ok(a) THEN ok(r1) ELSE None
        value2 == IF metadata_is_ok(b) THEN ok(read_from_path(b)) ELSE None
    IN  IF metadata_is_ok(a) /\ r1.kind = "err"
        THEN [res |-> r1, f1 |-> a, f2 |-> b]
        ELSE IF value2.some
        THEN IF value1.some
             THEN IF U64Gt(value2.val, value1.val)
                  THEN [res |-> Ok(value2.val), f1 |-> a, f2 |-> b]
                  ELSE [res |-> Ok(value1.val), f1 |-> a, f2 |-> remove_file_ok(b)]
             ELSE [res |-> Ok(value2.val), f1 |-> a, f2 |-> b]
        ELSE IF value1.some
             THEN [res |-> Ok(value1.val), f1 |-> a, f2 |-> b]
             ELSE [res |-> Err("InvalidData"), f1 |-> a, f2 |-> b]

\* read(): the result and the slot files it leaves behind
read(a, b) ==
    LET r1 == IF metadata_is_ok(a) THEN read_from_path(a) ELSE Err("unread")
        value1 == IF metadata_is_ok(a) THEN ok(r1) ELSE None
        value2 == IF metadata_is_ok(b) THEN ok(read_from_path(b)) ELSE None
    IN  IF metadata_is_ok(a) /\ r1.kind = "err"
        THEN [res |-> r1, f1 |-> a, f2 |-> b]
        ELSE IF value2.some
        THEN IF value1.some
             THEN IF U64Gt(value2.val, value1.val)
                  THEN [res |-> Ok(value2.val), f1 |-> a, f2 |-> b]
                  ELSE [res |-> Ok(value1.val), f1 |-> a, f2 |-> remove_file_ok(b)]
             ELSE [res |-> Ok(value2.val), f1 |-> a, f2 |-> b]
        ELSE IF value1.some
             THEN [res |-> Ok(value1.val), f1 |-> a, f2 |-> remove_file_ok(b)]
             ELSE [res |-> Err("InvalidData"), f1 |-> a, f2 |-> remove_file_ok(b)]

(***************************************************************************)
(* Fault outcomes of write(): none, the rename fails, the creation of      *)
(* `_2.seq` fails, or the content write stops after n bytes.               *)
(***************************************************************************)
NoFault == [at |-> "none", n |-> 0]
PartialLens == {0, SlotLen - 1}
Faults == {[at |-> "rename", n |-> 0], [at |-> "create", n |-> 0]}
              \cup {[at |-> "write", n |-> k] : k \in PartialLens}
Outcomes == {NoFault} \cup Faults

\* fs::write(path, value.to_be_bytes()): create or truncate, then write all
write_to_path(f, value, out) ==
    IF out.at = "create" THEN [res |-> Err("Io"), f |-> f]
    ELSE IF out.at = "write"
    THEN [res |-> Err("Io"), f |-> File(SubSeq(to_be_bytes(value), 1, out.n))]
    ELSE [res |-> Ok(NoVal), f |-> File(to_be_bytes(value))]

\* mutant: `_2.seq` is overwritten in place, without the rename
write_in_place(a, b, value, out) ==
    IF metadata_is_ok(b) /\ out.at = "rename"
    THEN [res |-> Err("Io"), f1 |-> a, f2 |-> b]
    ELSE LET w == write_to_path(b, value, out)
         IN  [res |-> w.res, f1 |-> a, f2 |-> w.f]

\* write(): rename `_2.seq` onto `_1.seq` when it exists, then write `_2.seq`
write(a, b, value, out) ==
    IF metadata_is_ok(b) /\ out.at = "rename"
    THEN [res |-> Err("Io"), f1 |-> a, f2 |-> b]
    ELSE LET a1 == IF metadata_is_ok(b) THEN b ELSE a
             b1 == IF metadata_is_ok(b) THEN Absent ELSE b
             w == write_to_path(b1, value, out)
         IN  [res |-> w.res, f1 |-> a1, f2 |-> w.f]

\* whether write() on these files makes the call that `out` interrupts
FaultApplies(b, out) == out.at = "rename" => metadata_is_ok(b)

\* mutant: only `_2.seq` is looked at to decide whether the store exists
initialize_unless_latest(a, b, initial_value, out) ==
    IF metadata_is_ok(b)
    THEN [res |-> Ok(NoVal), f1 |-> a, f2 |-> b]
    ELSE write(a, b, initial_value, out)

\* mutant: the seed written is zero, whatever initial_value is
initialize_with_zero(a, b, initial_value, out) ==
    IF metadata_is_ok(a) \/ metadata_is_ok(b)
    THEN [res |-> Ok(NoVal), f1 |-> a, f2 |-> b]
    ELSE write(a, b, U64Zero, out)

\* initialize_if_necessary(): seed the store unless a slot file exists
initialize_if_necessary(a, b, initial_value, out) ==
    IF metadata_is_ok(a) \/ metadata_is_ok(b)
    THEN [res |-> Ok(NoVal), f1 |-> a, f2 |-> b]
    ELSE write(a, b, initial_value, out)

\* mutant: a missing file is not an error
delete_ignore_missing(a, b) == [res |-> Ok(NoVal), f1 |-> Absent, f2 |-> Absent]

\* mutant: nothing is removed unless both files exist
delete_all_or_nothing(a, b) ==
    IF ~a.exists \/ ~b.exists THEN [res |-> Err("NotFound"), f1 |-> a, f2 |-> b]
    ELSE [res |-> Ok(NoVal), f1 |-> Absent, f2 |-> Absent]

\* delete(): remove_file(path_1)?; remove_file(path_2)
delete(a, b) ==
    IF ~a.exists THEN [res |-> Err("NotFound"), f1 |-> a, f2 |-> b]
    ELSE IF ~b.exists THEN [res |-> Err("NotFound"), f1 |-> Absent, f2 |-> b]
    ELSE [res |-> Ok(NoVal), f1 |-> Absent, f2 |-> Absent]

\* value(): read
value(a, b) == read(a, b)

\* get_and_increment(): read, add, write, return the value read
get_and_increment(a, b, increment, out, bld) ==
    LET r == read(a, b)
        s == U64Add(r.res.val, increment)
        w == write(r.f1, r.f2, s.val, out)
    IN  IF r.res.kind # "ok" THEN r
        ELSE IF s.overflow /\ bld = "debug"
        THEN [res |-> Panic, f1 |-> r.f1, f2 |-> r.f2]
        ELSE IF w.res.kind # "ok" THEN w
        ELSE [res |-> Ok(r.res.val), f1 |-> w.f1, f2 |-> w.f2]

\* increment_and_get(): get_and_increment, then add again in memory
increment_and_get(a, b, increment, out, bld) ==
    LET g == get_and_increment(a, b, increment, out, bld)
        s == U64Add(g.res.val, increment)
    IN  IF g.res.kind # "ok" THEN g
        ELSE IF s.overflow /\ bld = "debug"
        THEN [res |-> Panic, f1 |-> g.f1, f2 |-> g.f2]
        ELSE [res |-> Ok(s.val), f1 |-> g.f1, f2 |-> g.f2]

\* whether get_and_increment on these files reaches the call `out` interrupts
ReachesFault(a, b, increment, out, bld) ==
    LET r == read(a, b)
    IN  /\ r.res.kind = "ok"
        /\ ~(U64Add(r.res.val, increment).overflow /\ bld = "debug")
        /\ FaultApplies(r.f2, out)


(***************************************************************************)
(* Inputs.  A number is named by its distance from 0 or from u64::MAX, so  *)
(* that sums are kept as mathematical integers next to their u64.          *)
(***************************************************************************)
SeedOffsets == {0, 1}
Seeds == {[near |-> "zero", off |-> k] : k \in SeedOffsets}
             \cup {[near |-> "max", off |-> 0 - k] : k \in SeedOffsets}
Incs == 0..MaxInc

InRange(m) == m.near = "zero" \/ m.off <= 0
ToU64(m) == IF m.near = "zero" THEN FromNat(m.off) ELSE BelowMax(0 - m.off)
Plus(m, d) == [near |-> m.near, off |-> m.off + d]
NoTruth == [near |-> "none", off |-> 0]

\* the number a u64 of the model stands for (the inverse of ToU64)
Math(u) == IF u[1] = 0 THEN [near |-> "zero", off |-> u[3] * LimbBase + u[4]]
           ELSE [near |-> "max", off |-> u[4] - LimbMax]

(***************************************************************************)
(* History records.                                                        *)
(***************************************************************************)
Call(op, arg, res, a, b) ==
    [op |-> op, arg |-> arg, kind |-> res.kind, val |-> res.val, err |-> res.err,
     f1 |-> a, f2 |-> b]

\* the latest successful value() result, as of the end of the call `last`
SeenAfter == IF last.op = "value" /\ last.kind = "ok" THEN last.val ELSE seen

(***************************************************************************)
(* A process inside get_and_increment, one filesystem call at a time: its  *)
(* position, its locals (increment, value1, value2, the result of read())  *)
(* and the file it holds open.  fd names where the open file is now:      *)
(* "n1" or "n2" while a path still leads to it, "orphan" once it was       *)
(* replaced by a rename or removed; buf is what an orphan holds.           *)
(***************************************************************************)
Procs == {1, 2}
NoResult == [kind |-> "none", val |-> NoVal, err |-> "none"]
IdleProc ==
    [pc |-> "idle", increment |-> U64Zero, value1 |-> None, value2 |-> None,
     rd |-> NoResult, fd |-> "none", buf |-> <<>>, ret |-> NoResult]

Init ==
    /\ f1 = Absent
    /\ f2 = Absent
    /\ handle = FALSE
    /\ build \in {"debug", "release"}
    /\ last = Call("none", U64Zero, [kind |-> "none", val |-> NoVal, err |-> "none"],
                   Absent, Absent)
    /\ truth = NoTruth
    /\ exact = FALSE
    /\ seen = NoVal
    /\ incs = 0
    /\ nops = 0
    /\ procs = [p \in Procs |-> IdleProc]

Step(c) ==
    /\ nops < MaxOps
    /\ nops' = nops + 1
    /\ last' = c
    /\ UNCHANGED <<build, procs>>

\* FileSeq::new(store_dir, initial_value)
New ==
    \E m \in Seeds, out \in Outcomes :
        LET fresh == ~metadata_is_ok(f1) /\ ~metadata_is_ok(f2)
            r == initialize_if_necessary(f1, f2, ToU64(m), out)
        IN  /\ out # NoFault => fresh /\ FaultApplies(f2, out)
            /\ Step(Call("new", ToU64(m), r.res, f1, f2))
            /\ f1' = r.f1
            /\ f2' = r.f2
            /\ handle' = (handle \/ r.res.kind = "ok")
            /\ truth' = IF fresh /\ r.res.kind = "ok" THEN m
                        ELSE IF fresh THEN NoTruth ELSE truth
            /\ exact' = IF fresh THEN r.res.kind = "ok" ELSE exact
            /\ incs' = IF fresh THEN 0 ELSE incs
            /\ seen' = SeenAfter

\* FileSeq::get_and_increment(increment)
GetAndIncrement ==
    \E d \in Incs, out \in Outcomes :
        LET r == get_and_increment(f1, f2, FromNat(d), out, build)
        IN  /\ handle
            /\ out # NoFault => ReachesFault(f1, f2, FromNat(d), out, build)
            /\ Step(Call("get_and_increment", FromNat(d), r.res, f1, f2))
            /\ f1' = r.f1
            /\ f2' = r.f2
            /\ truth' = IF r.res.kind = "ok" THEN Plus(truth, d) ELSE truth
            /\ exact' = (exact /\ r.res.kind = "ok")
            /\ incs' = IF r.res.kind = "ok" THEN incs + 1 ELSE incs
            /\ seen' = SeenAfter
            /\ UNCHANGED handle

\* FileSeq::increment_and_get(increment)
IncrementAndGet ==
    \E d \in Incs, out \in Outcomes :
        LET r == increment_and_get(f1, f2, FromNat(d), out, build)
        IN  /\ handle
            /\ out # NoFault => ReachesFault(f1, f2, FromNat(d), out, build)
            /\ Step(Call("increment_and_get", FromNat(d), r.res, f1, f2))
            /\ f1' = r.f1
            /\ f2' = r.f2
            /\ truth' = IF r.res.kind = "ok" THEN Plus(truth, d) ELSE truth
            /\ exact' = (exact /\ r.res.kind = "ok")
            /\ incs' = IF r.res.kind = "ok" THEN incs + 1 ELSE incs
            /\ seen' = SeenAfter
            /\ UNCHANGED handle

\* FileSeq::value()
Value ==
    LET r == value(f1, f2)
    IN  /\ handle
        /\ Step(Call("value", U64Zero, r.res, f1, f2))
        /\ f1' = r.f1
        /\ f2' = r.f2
        /\ seen' = SeenAfter
        /\ UNCHANGED <<handle, truth, exact, incs>>

\* whether a call with outcome r left both slot files as they were
Untouched(r) == r.f1 = f1 /\ r.f2 = f2

\* FileSeq::delete()
Delete ==
    LET r == delete(f1, f2)
    IN  /\ handle
        /\ Step(Call("delete", U64Zero, r.res, f1, f2))
        /\ f1' = r.f1
        /\ f2' = r.f2
        /\ truth' = IF Untouched(r) THEN truth ELSE NoTruth
        /\ exact' = (Untouched(r) /\ exact)
        /\ seen' = IF Untouched(r) THEN SeenAfter ELSE NoVal
        /\ incs' = IF Untouched(r) THEN incs ELSE 0
        /\ UNCHANGED handle

\* the process ends (exit or crash): the FileSeq handle is lost, the files stay
Restart ==
    /\ handle
    /\ handle' = FALSE
    /\ UNCHANGED <<f1, f2, build, last, truth, exact, seen, incs, nops, procs>>

Next ==
    \/ New
    \/ GetAndIncrement
    \/ IncrementAndGet
    \/ Value
    \/ Delete
    \/ Restart

Spec == Init /\ [][Next]_vars


(***************************************************************************)
(* External tampering: something other than the library replaces, cuts or  *)
(* removes a slot file (an operator, a test simulating corruption).        *)
(***************************************************************************)
TamperContents ==
    {Absent, File(<<>>), File(SubSeq(to_be_bytes(U64Max), 1, SlotLen - 1))}
        \cup {File(to_be_bytes(ToU64(m))) : m \in Seeds}

Tamper ==
    \E slot \in {1, 2}, c \in TamperContents :
        /\ c # (IF slot = 1 THEN f1 ELSE f2)
        /\ Step(Call("tamper", FromNat(slot), Ok(NoVal), f1, f2))
        /\ f1' = IF slot = 1 THEN c ELSE f1
        /\ f2' = IF slot = 2 THEN c ELSE f2
        /\ truth' = NoTruth
        /\ exact' = FALSE
        /\ seen' = NoVal
        /\ UNCHANGED <<handle, incs>>

NextTamper ==
    \/ Next
    \/ Tamper

SpecTamper == Init /\ [][NextTamper]_vars


(***************************************************************************)
(* Two processes in get_and_increment on the same directory, no lock.      *)
(* Every action is one filesystem call of one process, followed by the     *)
(* computation the code does before its next filesystem call.              *)
(***************************************************************************)
Other(p) == 3 - p

\* the stores the race starts from: freshly seeded, or incremented once
ConcStores ==
    {initialize_if_necessary(Absent, Absent, ToU64(m), NoFault) :
        m \in {x \in Seeds : x.near = "zero"}}
    \cup {LET s == initialize_if_necessary(Absent, Absent, ToU64(m), NoFault)
          IN  get_and_increment(s.f1, s.f2, FromNat(1), NoFault, "release") :
              m \in {x \in Seeds : x.near = "zero"}}

InitConc ==
    /\ \E s \in ConcStores : f1 = s.f1 /\ f2 = s.f2
    /\ \E d \in Incs \ {0} :
           procs = [p \in Procs |->
                       [IdleProc EXCEPT !.pc = "stat1", !.increment = FromNat(d)]]
    /\ handle = TRUE
    /\ build = "release"
    /\ last = Call("none", U64Zero, NoResult, Absent, Absent)
    /\ truth = NoTruth
    /\ exact = FALSE
    /\ seen = NoVal
    /\ incs = 0
    /\ nops = 0

Quiet == UNCHANGED <<handle, build, last, truth, exact, seen, incs, nops>>

\* the bytes of the file a process holds open
FdContent(q) ==
    IF q.fd = "n1" THEN f1.data ELSE IF q.fd = "n2" THEN f2.data ELSE q.buf

\* the match on value2 and value1 in read(): the result, and whether
\* remove_file(path_2) is called on the way
reconcile(value1, value2) ==
    IF value2.some
    THEN IF value1.some
         THEN IF U64Gt(value2.val, value1.val)
              THEN [res |-> Ok(value2.val), remove |-> FALSE]
              ELSE [res |-> Ok(value1.val), remove |-> TRUE]
         ELSE [res |-> Ok(value2.val), remove |-> FALSE]
    ELSE IF value1.some
         THEN [res |-> Ok(value1.val), remove |-> TRUE]
         ELSE [res |-> Err("InvalidData"), remove |-> TRUE]

\* the process after both slots were looked at
Reconciled(q) ==
    LET m == reconcile(q.value1, q.value2)
    IN  [q EXCEPT !.rd = m.res, !.fd = "none",
                  !.pc = IF m.remove THEN "remove2" ELSE "stat2w"]

Returned(q, r) == [q EXCEPT !.ret = r, !.fd = "none", !.pc = "done"]

\* what the removal of `_2.seq` does to a file the other process holds open
AfterUnlink2(q) ==
    IF q.fd = "n2" THEN [q EXCEPT !.fd = "orphan", !.buf = f2.data] ELSE q

\* an open file that followed the name and not the file across a rename
AfterRenameByName(q) == q

\* what the rename of `_2.seq` onto `_1.seq` does to it
AfterRename(q) ==
    IF q.fd = "n2" THEN [q EXCEPT !.fd = "n1"]
    ELSE IF q.fd = "n1" THEN [q EXCEPT !.fd = "orphan", !.buf = f1.data]
    ELSE q

\* read(): fs::metadata(&self.path_1).is_ok()
StatPath1(p) ==
    /\ procs[p].pc = "stat1"
    /\ procs' = [procs EXCEPT ![p].pc =
                    IF metadata_is_ok(f1) THEN "open1" ELSE "stat2"]
    /\ UNCHANGED <<f1, f2>>
    /\ Quiet

\* read_from_path(path_1): fs::File::open
OpenPath1(p) ==
    /\ procs[p].pc = "open1"
    /\ procs' = [procs EXCEPT ![p] =
                    IF f1.exists THEN [@ EXCEPT !.fd = "n1", !.pc = "read1"]
                    ELSE Returned(@, Err("NotFound"))]
    /\ UNCHANGED <<f1, f2>>
    /\ Quiet

\* read_from_path(path_1): read_exact and from_be_bytes; an error returns
ReadPath1(p) ==
    LET r == read_from_path(File(FdContent(procs[p])))
    IN  /\ procs[p].pc = "read1"
        /\ procs' = [procs EXCEPT ![p] =
                        IF r.kind = "ok"
                        THEN [@ EXCEPT !.value1 = Some(r.val), !.fd = "none",
                                       !.pc = "stat2"]
                        ELSE Returned(@, r)]
        /\ UNCHANGED <<f1, f2>>
        /\ Quiet

\* read(): fs::metadata(&self.path_2).is_ok()
StatPath2(p) ==
    /\ procs[p].pc = "stat2"
    /\ procs' = [procs EXCEPT ![p] =
                    IF metadata_is_ok(f2) THEN [@ EXCEPT !.pc = "open2"]
                    ELSE Reconciled(@)]
    /\ UNCHANGED <<f1, f2>>
    /\ Quiet

\* read_from_path(path_2): fs::File::open; an error leaves value2 None
OpenPath2(p) ==
    /\ procs[p].pc = "open2"
    /\ procs' = [procs EXCEPT ![p] =
                    IF f2.exists THEN [@ EXCEPT !.fd = "n2", !.pc = "read2"]
                    ELSE Reconciled(@)]
    /\ UNCHANGED <<f1, f2>>
    /\ Quiet

\* read_from_path(path_2): read_exact and from_be_bytes, then .ok()
ReadPath2(p) ==
    LET r == read_from_path(File(FdContent(procs[p])))
    IN  /\ procs[p].pc = "read2"
        /\ procs' = [procs EXCEPT ![p] = Reconciled([@ EXCEPT !.value2 = ok(r)])]
        /\ UNCHANGED <<f1, f2>>
        /\ Quiet

\* read(): fs::remove_file(&self.path_2).ok(), then the result of read()
RemovePath2(p) ==
    /\ procs[p].pc = "remove2"
    /\ f2' = remove_file_ok(f2)
    /\ procs' = [q \in Procs |->
                    IF q = p
                    THEN IF procs[p].rd.kind = "ok"
                         THEN [procs[p] EXCEPT !.pc = "stat2w"]
                         ELSE Returned(procs[p], procs[p].rd)
                    ELSE IF f2.exists THEN AfterUnlink2(procs[q]) ELSE procs[q]]
    /\ UNCHANGED f1
    /\ Quiet

\* write(): fs::metadata(&self.path_2).is_ok()
StatPath2W(p) ==
    /\ procs[p].pc = "stat2w"
    /\ procs' = [procs EXCEPT ![p].pc =
                    IF metadata_is_ok(f2) THEN "rename" ELSE "create"]
    /\ UNCHANGED <<f1, f2>>
    /\ Quiet

\* write(): fs::rename(&self.path_2, &self.path_1)?
Rename(p) ==
    /\ procs[p].pc = "rename"
    /\ IF f2.exists
       THEN /\ f1' = f2
            /\ f2' = Absent
            /\ procs' = [q \in Procs |->
                            IF q = p THEN [procs[p] EXCEPT !.pc = "create"]
                            ELSE AfterRename(procs[q])]
       ELSE /\ procs' = [procs EXCEPT ![p] = Returned(@, Err("NotFound"))]
            /\ UNCHANGED <<f1, f2>>
    /\ Quiet

\* write_to_path: fs::write creates `_2.seq` or truncates it
Create(p) ==
    /\ procs[p].pc = "create"
    /\ f2' = File(<<>>)
    /\ procs' = [procs EXCEPT ![p].fd = "n2", ![p].pc = "write"]
    /\ UNCHANGED f1
    /\ Quiet

\* write_to_path: fs::write writes the 8 bytes; get_and_increment returns
WriteAll(p) ==
    LET q == procs[p]
        bytes == to_be_bytes(U64Add(q.rd.val, q.increment).val)
    IN  /\ q.pc = "write"
        /\ f1' = IF q.fd = "n1" THEN File(bytes) ELSE f1
        /\ f2' = IF q.fd = "n2" THEN File(bytes) ELSE f2
        /\ procs' = [procs EXCEPT ![p] = Returned(@, Ok(q.rd.val))]
        /\ Quiet

NextConc ==
    \E p \in Procs :
        \/ StatPath1(p)
        \/ OpenPath1(p)
        \/ ReadPath1(p)
        \/ StatPath2(p)
        \/ OpenPath2(p)
        \/ ReadPath2(p)
        \/ RemovePath2(p)
        \/ StatPath2W(p)
        \/ Rename(p)
        \/ Create(p)
        \/ WriteAll(p)

SpecConc == InitConc /\ [][NextConc]_vars

(***************************************************************************)
(* Properties.                                                             *)
(***************************************************************************)
Truncated(f) == f.exists /\ Len(f.data) < SlotLen
Decodable(f) == f.exists /\ Len(f.data) >= SlotLen
Undecodable(f) == ~f.exists \/ Truncated(f)
Decoded(f) == from_be_bytes(SubSeq(f.data, 1, SlotLen))
IsIncrement(c) == c.op \in {"get_and_increment", "increment_and_get"}
Result(c) == [kind |-> c.kind, val |-> c.val, err |-> c.err]

\* x <= y on the numbers two u64 stand for
LeqNum(x, y) ==
    \/ Math(x).near = "zero" /\ Math(y).near = "max"
    \/ Math(x).near = Math(y).near /\ Math(x).off <= Math(y).off

\* C1: after new(V) on a fresh directory and successful increments d_1..d_n
\* (zero included, V + sum(d_i) within u64), value() returns V + sum(d_i).
C1_SumOfIncrements ==
    (last.op = "value" /\ exact /\ InRange(truth))
        => (last.kind = "ok" /\ last.val = ToU64(truth))

C1_Witness ==
    /\ last.op = "value"
    /\ last.kind = "ok"
    /\ exact
    /\ incs >= 2
    /\ truth = [near |-> "zero", off |-> 2]
    /\ last.val = FromNat(2)

\* C2: within one lifetime of the store (no delete), successive successful
\* value() calls never return a smaller value than the one before, crashes
\* and failed writes included.
C2_Monotonic ==
    (last.op = "value" /\ last.kind = "ok" /\ seen # NoVal)
        => LeqNum(seen, last.val)

C2_Witness ==
    /\ last.op = "value"
    /\ last.kind = "ok"
    /\ seen # NoVal
    /\ Truncated(last.f2)
    /\ last.val = seen

\* C3: when the write of an increment is interrupted (rename failed, file
\* not created, or content cut short) in a store whose value is V, the next
\* value() succeeds and returns V.
C3_InterruptedWriteKeepsValue ==
    (IsIncrement(last) /\ last.err = "Io")
        => /\ value(last.f1, last.f2).res.kind = "ok"
           /\ value(f1, f2).res = value(last.f1, last.f2).res

C3_Witness ==
    /\ IsIncrement(last)
    /\ last.err = "Io"
    /\ Decodable(last.f1)
    /\ Decodable(last.f2)
    /\ Truncated(f2)
    /\ f1 = last.f2

\* C4: get_and_increment(d) returns the value V that value() would have
\* returned, and the value() that follows returns V + d.
C4_GetAndIncrement ==
    (last.op = "get_and_increment" /\ last.kind = "ok")
        => /\ Ok(last.val) = value(last.f1, last.f2).res
           /\ value(f1, f2).res.kind = "ok"
           /\ Math(value(f1, f2).res.val) = Plus(Math(last.val), Math(last.arg).off)

\* C5: increment_and_get(d) returns V + d, V being what value() would have
\* returned, and the value() that follows returns the same value.
C5_IncrementAndGet ==
    (last.op = "increment_and_get" /\ last.kind = "ok")
        => /\ value(last.f1, last.f2).res.kind = "ok"
           /\ Math(last.val) =
                  Plus(Math(value(last.f1, last.f2).res.val), Math(last.arg).off)
           /\ value(f1, f2).res = Ok(last.val)

\* C6: new(dir, V) on a directory with neither slot file leaves `_2.seq`
\* only, and the value() that follows returns V.
C6_FreshOpen ==
    (last.op = "new" /\ last.kind = "ok" /\ ~last.f1.exists /\ ~last.f2.exists)
        => /\ ~f1.exists
           /\ f2.exists
           /\ value(f1, f2).res = Ok(last.arg)

C6_Witness ==
    /\ last.op = "new"
    /\ last.kind = "ok"
    /\ ~last.f1.exists
    /\ ~last.f2.exists
    /\ f2.exists
    /\ last.arg = BelowMax(1)

\* C7: when each slot is absent or shorter than 8 bytes, value() fails with
\* InvalidData.
C7_BothUndecodable ==
    (last.op = "value" /\ Undecodable(last.f1) /\ Undecodable(last.f2))
        => (last.kind = "err" /\ last.err = "InvalidData")

\* C8: value() gives the same result whether a slot is shorter than 8 bytes
\* or absent, for either slot and any content of the other.
C8_TruncatedAsAbsent ==
    last.op = "value"
        => /\ Truncated(last.f1) => Result(last) = value(Absent, last.f2).res
           /\ Truncated(last.f2) => Result(last) = value(last.f1, Absent).res

\* C9: after at least one increment, with `_2.seq` cut short and `_1.seq`
\* intact, value() returns the value of `_1.seq`, removes `_2.seq` and leaves
\* `_1.seq` as it was.
C9_CrashTolerance ==
    (last.op = "value" /\ incs >= 1 /\ Decodable(last.f1) /\ Truncated(last.f2))
        => /\ last.kind = "ok"
           /\ last.val = Decoded(last.f1)
           /\ ~f2.exists
           /\ f1 = last.f1

C9_Witness ==
    /\ last.op = "value"
    /\ incs >= 1
    /\ Decodable(last.f1)
    /\ Truncated(last.f2)
    /\ ~f2.exists
    /\ last.val = Decoded(f1)

\* C10 as stated: when both slots decode and `_1.seq` holds a value >= that
\* of `_2.seq`, value() returns the value of `_2.seq` and removes `_1.seq`,
\* leaving `_2.seq` in place.
C10_Original ==
    (/\ last.op = "value"
     /\ Decodable(last.f1)
     /\ Decodable(last.f2)
     /\ LeqNum(Decoded(last.f2), Decoded(last.f1)))
        => /\ last.kind = "ok"
           /\ last.val = Decoded(last.f2)
           /\ ~f1.exists
           /\ f2 = last.f2

\* C10 amended: when both slots decode and `_1.seq` holds a value >= that of
\* `_2.seq`, value() returns the value of `_1.seq` and removes `_2.seq`,
\* leaving `_1.seq` in place.
C10_SelfHeal ==
    (/\ last.op = "value"
     /\ Decodable(last.f1)
     /\ Decodable(last.f2)
     /\ LeqNum(Decoded(last.f2), Decoded(last.f1)))
        => /\ last.kind = "ok"
           /\ last.val = Decoded(last.f1)
           /\ ~f2.exists
           /\ f1 = last.f1

C10_Witness ==
    /\ last.op = "value"
    /\ Decodable(last.f1)
    /\ Decodable(last.f2)
    /\ Decoded(last.f1) = FromNat(1)
    /\ Decoded(last.f2) = FromNat(0)
    /\ last.val = FromNat(1)
    /\ ~f2.exists

\* the value value() would return before the call `last`
Before == value(last.f1, last.f2).res.val

\* the mathematical sum of that value and the increment of the call `last`
Sum == Plus(Math(Before), Math(last.arg).off)

\* C11 as stated: after every successful increment both slot files exist,
\* `_1.seq` holds the bytes of the pre-increment value, and `_2.seq` decodes
\* to a strictly larger value than `_1.seq`.
C11_Original ==
    (IsIncrement(last) /\ last.kind = "ok")
        => /\ f1 = File(to_be_bytes(Before))
           /\ Decodable(f2)
           /\ ~LeqNum(Decoded(f2), Decoded(f1))

\* C11 amended: after every successful increment both slot files exist,
\* `_1.seq` holds the bytes of the pre-increment value V (it is the former
\* `_2.seq` whenever that file held V), and `_2.seq` decodes to a strictly
\* larger value when d > 0 and V + d is within u64, to the same value when
\* d = 0, and to a smaller one when V + d wraps.
C11_Rotation ==
    (IsIncrement(last) /\ last.kind = "ok")
        => /\ f1 = File(to_be_bytes(Before))
           /\ (Decodable(last.f2) /\ Decoded(last.f2) = Before) => f1 = last.f2
           /\ Decodable(f2)
           /\ InRange(Sum) => Math(Decoded(f2)) = Sum
           /\ ~InRange(Sum) => ~LeqNum(Decoded(f1), Decoded(f2))

C11_Witness ==
    /\ IsIncrement(last)
    /\ last.kind = "ok"
    /\ last.arg = FromNat(1)
    /\ Decodable(last.f1)
    /\ f1 = last.f2
    /\ Math(Decoded(f2)) = Plus(Math(Decoded(f1)), 1)

\* C12: when a slot file exists, whatever it holds, new(dir, W) succeeds and
\* writes nothing: both files are as they were and value() returns what it
\* returned before, for every W.
C12_ReopenIsNoOp ==
    (last.op = "new" /\ (last.f1.exists \/ last.f2.exists))
        => /\ last.kind = "ok"
           /\ f1 = last.f1
           /\ f2 = last.f2
           /\ value(f1, f2).res = value(last.f1, last.f2).res

C12_Witness ==
    /\ last.op = "new"
    /\ Decodable(last.f1)
    /\ ~last.f2.exists
    /\ last.arg # Decoded(last.f1)
    /\ f1 = last.f1
    /\ ~f2.exists

\* C13: delete() succeeds exactly when both slot files exist; after a
\* successful delete() neither exists, and new(dir, W) then seeds the store
\* so that value() returns W.
C13_Delete ==
    last.op = "delete"
        => /\ last.kind = "ok" <=> (last.f1.exists /\ last.f2.exists)
           /\ last.kind = "ok" =>
                  /\ ~f1.exists
                  /\ ~f2.exists
                  /\ \A m \in Seeds :
                         LET r == initialize_if_necessary(f1, f2, ToU64(m), NoFault)
                         IN  /\ r.res.kind = "ok"
                             /\ value(r.f1, r.f2).res = Ok(ToU64(m))

C13_Witness ==
    /\ last.op = "delete"
    /\ last.kind = "ok"
    /\ Decodable(last.f1)
    /\ Decodable(last.f2)
    /\ ~f1.exists
    /\ ~f2.exists

\* C14 as stated: value() leaves both slot files unchanged in every state.
C14_Original ==
    last.op = "value" => (f1 = last.f1 /\ f2 = last.f2)

\* whether read() takes a branch that removes `_2.seq`
Heals(a, b) ==
    /\ b.exists
    /\ ~Truncated(a)
    /\ \/ Truncated(b)
       \/ Decodable(a) /\ LeqNum(Decoded(b), Decoded(a))

\* C14 amended: value() never creates or modifies a slot file and never
\* touches `_1.seq`; it removes `_2.seq` when `_1.seq` is not truncated and
\* `_2.seq` is either truncated or decodes to a value <= that of `_1.seq`,
\* and leaves `_2.seq` unchanged otherwise.
C14_ReadEffect ==
    last.op = "value"
        => /\ f1 = last.f1
           /\ f2 = IF Heals(last.f1, last.f2) THEN Absent ELSE last.f2

C14_Witness ==
    /\ last.op = "value"
    /\ Decodable(last.f1)
    /\ Decodable(last.f2)
    /\ Decoded(last.f1) = Decoded(last.f2)
    /\ f1 = last.f1
    /\ ~f2.exists

\* C15 as stated: after every successful new(), `_2.seq` exists and decodes.
C15_Original ==
    (last.op = "new" /\ last.kind = "ok") => Decodable(f2)

\* C15 amended: after a successful new() on a directory with neither slot
\* file `_2.seq` exists and decodes; after a successful new() on an existing
\* store `_2.seq` is what it was before the call, so it may be absent (after
\* a crash between rename and write, or a self-healing read) or truncated.
C15_LatestAfterOpen ==
    (last.op = "new" /\ last.kind = "ok")
        => IF ~last.f1.exists /\ ~last.f2.exists
           THEN Decodable(f2) /\ Decoded(f2) = last.arg
           ELSE f2 = last.f2

C15_Witness ==
    /\ last.op = "new"
    /\ last.kind = "ok"
    /\ Decodable(last.f1)
    /\ ~last.f2.exists
    /\ ~f2.exists
    /\ incs >= 1

\* the value value() returns in the current state
Current == value(f1, f2).res.val

\* slot x holds the current value and slot y, if it exists, a strictly
\* smaller one
HoldsAbove(x, y) ==
    /\ Decodable(x)
    /\ Decoded(x) = Current
    /\ y.exists => (Decodable(y) /\ ~LeqNum(Current, Decoded(y)))

\* slot x holds the current value and slot y, if it exists, a smaller or
\* equal one
HoldsAtLeast(x, y) ==
    /\ Decodable(x)
    /\ Decoded(x) = Current
    /\ y.exists => (Decodable(y) /\ LeqNum(Decoded(y), Current))

\* C16 as stated: between successful calls of new, the increments and
\* value, one slot holds the current value and the other, if it exists,
\* decodes to a strictly smaller value.
C16_Original ==
    exact => /\ value(f1, f2).res.kind = "ok"
             /\ HoldsAbove(f1, f2) \/ HoldsAbove(f2, f1)

\* C16 amended: between successful calls, one slot holds the current value
\* and the other, if it exists, decodes to a smaller or equal value (equal
\* right after an increment of 0); the current value is V + sum(d_i) while
\* that sum is within u64.
C16_SlotOrder ==
    exact => /\ value(f1, f2).res.kind = "ok"
             /\ HoldsAtLeast(f1, f2) \/ HoldsAtLeast(f2, f1)
             /\ InRange(truth) => Current = ToU64(truth)

C16_Witness ==
    /\ exact
    /\ IsIncrement(last)
    /\ last.arg = U64Zero
    /\ Decodable(f1)
    /\ Decodable(f2)
    /\ Decoded(f1) = Decoded(f2)
    /\ Current = Decoded(f1)

\* both processes have returned from get_and_increment
BothDone == \A p \in Procs : procs[p].pc = "done"

\* both calls succeeded and returned the same pre-value
SamePreValue ==
    /\ BothDone
    /\ \A p \in Procs : procs[p].ret.kind = "ok"
    /\ procs[1].ret.val = procs[2].ret.val

\* C17: two unserialised get_and_increment(d), d > 0, on one directory can
\* both succeed with the same pre-value V, and whenever they do, value()
\* afterwards returns V + d, less than V + 2d: one increment is lost.
C17_LostIncrement ==
    SamePreValue =>
        LET V == Math(procs[1].ret.val)
            d == Math(procs[1].increment).off
            r == value(f1, f2).res
        IN  /\ d > 0
            /\ r.kind = "ok"
            /\ Math(r.val) = Plus(V, d)
            /\ Math(r.val) # Plus(V, 2 * d)

C17_Witness ==
    /\ SamePreValue
    /\ value(f1, f2).res.kind = "ok"
    /\ Math(value(f1, f2).res.val).near = "zero"
    /\ Math(value(f1, f2).res.val).off
           < Math(procs[1].ret.val).off + 2 * Math(procs[1].increment).off

\* a write has fully completed in this lifetime of the store
Persisted == truth # NoTruth

\* C18: once a write has fully completed, with writes interrupted at any
\* step afterwards, `_1.seq` is decodable whenever it exists, at least one
\* slot decodes, and value() does not fail.
C18_NeverCorrupted ==
    Persisted
        => /\ f1.exists => Decodable(f1)
           /\ Decodable(f1) \/ Decodable(f2)
           /\ value(f1, f2).res.kind = "ok"
           /\ last.op = "value" => last.kind = "ok"

C18_Witness ==
    /\ Persisted
    /\ last.op = "value"
    /\ last.kind = "ok"
    /\ Decodable(last.f1)
    /\ Truncated(last.f2)
    /\ ~f2.exists

\* the u64 a sum beyond u64::MAX wraps to
Wrapped(m) == FromNat(m.off - 1)

\* C19: in a build where + wraps, a successful increment with V + d beyond
\* u64::MAX writes (V + d) mod 2^64 to `_2.seq`; the next value() returns V
\* and removes `_2.seq`, and increment_and_get has returned the wrapped
\* value, which differs from it.
C19_OverflowStalls ==
    (IsIncrement(last) /\ last.kind = "ok" /\ ~InRange(Sum))
        => /\ build = "release"
           /\ f2 = File(to_be_bytes(Wrapped(Sum)))
           /\ value(f1, f2).res = Ok(Before)
           /\ value(f1, f2).f2 = Absent
           /\ value(f1, f2).f1 = File(to_be_bytes(Before))
           /\ last.op = "get_and_increment" => last.val = Before
           /\ last.op = "increment_and_get" =>
                  (last.val = Wrapped(Sum) /\ last.val # Current)

C19_Witness ==
    /\ last.op = "increment_and_get"
    /\ last.kind = "ok"
    /\ ~InRange(Sum)
    /\ build = "release"
    /\ last.val = U64Zero
    /\ Current = U64Max

\* C20: delete() on a store with only `_2.seq` fails and removes nothing; on
\* a store with only `_1.seq` it removes `_1.seq` and then fails, leaving no
\* slot file.
C20_DeleteNotAtomic ==
    last.op = "delete"
        => /\ (~last.f1.exists /\ last.f2.exists)
                  => (last.kind = "err" /\ f1 = last.f1 /\ f2 = last.f2)
           /\ (last.f1.exists /\ ~last.f2.exists)
                  => (last.kind = "err" /\ ~f1.exists /\ ~f2.exists)

C20_Witness ==
    /\ last.op = "delete"
    /\ last.kind = "err"
    /\ Decodable(last.f1)
    /\ ~last.f2.exists
    /\ ~f1.exists
    /\ ~f2.exists

====
